---- MODULE Spec2Model ----
(***************************************************************************)
(* guibot/config.py: the global settings registry (Config, reached as      *)
(* GlobalConfig), the scoped override proxy (TemporaryConfig) and the      *)
(* per-object backend container (LocalConfig).                             *)
(*                                                                         *)
(* Python values are modelled as strings: "0.5" is the float 0.5, "3" the  *)
(* integer 3, "True"/"False" the two bool literals, "None" the None        *)
(* object and any other string the Python string of that text.  An         *)
(* attribute that was never assigned holds Unset; reading it raises        *)
(* AttributeError.  Exceptions are named by their Python class, "none"     *)
(* meaning that no exception is propagating.                               *)
(***************************************************************************)
EXTENDS Integers, Sequences, FiniteSets, TLC

\* ------------------------------------------------------------------ bounds
\* operations (reads, writes, scope entries, raised errors) of one scenario
MaxOps == 5
\* the scopes one TemporaryConfig object is used for, one after the other
MaxScopes == 2

\* ------------------------------------------------------------ Python values
None == "None"
Unset == "<unset>"
NoExc == "none"

\* the settings that have an accessor (a property object) on Config
FreeSettings ==
    {"toggle_delay", "click_delay", "delay_after_drag", "delay_before_drop",
     "delay_before_keys", "delay_between_keys", "rescan_speed_on_find",
     "image_logging_level", "image_logging_step_width", "image_quality",
     "image_logging_destination", "find_backend", "contour_threshold_backend",
     "template_match_backend", "feature_detect_backend",
     "feature_extract_backend", "feature_match_backend", "text_detect_backend",
     "text_ocr_backend", "deep_learn_backend", "hybrid_match_backend"}

BoolSettings ==
    {"wait_for_animations", "smooth_mouse_drag", "preprocess_special_chars",
     "save_needle_on_error"}

Settings == FreeSettings \cup BoolSettings \cup {"display_control_backend"}

\* the instance attribute an accessor reads and writes
Field(name) ==
    CASE name = "toggle_delay" -> "_toggle_delay"
      [] name = "click_delay" -> "_click_delay"
      [] name = "delay_after_drag" -> "_drag_delay"
      [] name = "delay_before_drop" -> "_drop_delay"
      [] name = "delay_before_keys" -> "_keys_delay"
      [] name = "delay_between_keys" -> "_type_delay"
      [] name = "rescan_speed_on_find" -> "_rescan_speed_on_find"
      [] name = "wait_for_animations" -> "_wait_for_animations"
      [] name = "smooth_mouse_drag" -> "_smooth_mouse_drag"
      [] name = "preprocess_special_chars" -> "_preprocess_special_chars"
      [] name = "save_needle_on_error" -> "_save_needle_on_error"
      [] name = "image_logging_level" -> "_image_logging_level"
      [] name = "image_logging_step_width" -> "_image_logging_step_width"
      [] name = "image_quality" -> "_image_quality"
      [] name = "image_logging_destination" -> "_image_logging_destination"
      [] name = "display_control_backend" -> "_display_control_backend"
      [] name = "find_backend" -> "_find_backend"
      [] name = "contour_threshold_backend" -> "_contour_threshold_backend"
      [] name = "template_match_backend" -> "_template_match_backend"
      [] name = "feature_detect_backend" -> "_feature_detect_backend"
      [] name = "feature_extract_backend" -> "_feature_extract_backend"
      [] name = "feature_match_backend" -> "_feature_match_backend"
      [] name = "text_detect_backend" -> "_text_detect_backend"
      [] name = "text_ocr_backend" -> "_text_ocr_backend"
      [] name = "deep_learn_backend" -> "_deep_learn_backend"
      [] name = "hybrid_match_backend" -> "_hybrid_match_backend"

\* the assignments of Config.__init__, in order
InitAssignments ==
    << <<"toggle_delay", "0.05">>, <<"click_delay", "0.1">>,
       <<"drag_delay", "0.5">>, <<"drop_delay", "0.5">>,
       <<"keys_delay", "0.2">>, <<"type_delay", "0.1">>,
       <<"rescan_speed_on_find", "0.2">>, <<"wait_for_animations", "False">>,
       <<"smooth_mouse_drag", "True">>, <<"screen_autoconnect", "True">>,
       <<"preprocess_special_chars", "True">>,
       <<"save_needle_on_error", "True">>, <<"image_logging_level", "40">>,
       <<"image_logging_destination", "imglog">>,
       <<"image_logging_step_width", "3">>, <<"image_quality", "3">>,
       <<"display_control_backend", "pyautogui">>, <<"find_backend", "hybrid">>,
       <<"contour_threshold_backend", "adaptive">>,
       <<"template_match_backend", "ccoeff_normed">>,
       <<"feature_detect_backend", "ORB">>, <<"feature_extract_backend", "ORB">>,
       <<"feature_match_backend", "BruteForce-Hamming">>,
       <<"text_detect_backend", "contours">>,
       <<"text_ocr_backend", "pytesseract">>, <<"deep_learn_backend", "pytorch">>,
       <<"hybrid_match_backend", "template">> >>

\* every attribute a Config instance can carry: the accessors' fields and the
\* plain attributes that __init__ creates next to them
AttrNames ==
    {Field(n) : n \in Settings}
        \cup ({InitAssignments[i][1] : i \in 1..Len(InitAssignments)} \ Settings)

\* ------------------------------------------------------------- Config
\* The accessors are combined getter/setters: called with None they return
\* the field, otherwise they store.  Each returns the object's attributes
\* afterwards, the returned value and the exception raised.
Result(attrs, ret, err) == [attrs |-> attrs, ret |-> ret, err |-> err]

ReadField(attrs, field) ==
    IF attrs[field] = Unset
    THEN Result(attrs, None, "AttributeError")
    ELSE Result(attrs, attrs[field], NoExc)

\* (variant) the value goes to an attribute other than the field, the way
\* __init__ writes drag_delay next to _drag_delay
FreeAccessorStoresElsewhere(attrs, field, value) ==
    IF value = None
    THEN ReadField(attrs, field)
    ELSE Result(attrs, None, NoExc)

\* toggle_delay and the twenty accessors written like it
FreeAccessor(attrs, field, value) ==
    IF value = None
    THEN ReadField(attrs, field)
    ELSE Result([attrs EXCEPT ![field] = value], None, NoExc)

\* (variant) no check that the value is a bool literal
BoolAccessorUnchecked(attrs, field, value) ==
    IF value = None
    THEN ReadField(attrs, field)
    ELSE Result([attrs EXCEPT ![field] = value], None, NoExc)

\* (variant) the value is stored before it is checked
BoolAccessorStoresThenRaises(attrs, field, value) ==
    IF value = None
    THEN ReadField(attrs, field)
    ELSE IF value = "True" \/ value = "False"
         THEN Result([attrs EXCEPT ![field] = value], None, NoExc)
         ELSE Result([attrs EXCEPT ![field] = value], None, "ValueError")

\* wait_for_animations and the three accessors written like it
BoolAccessor(attrs, field, value) ==
    IF value = None
    THEN ReadField(attrs, field)
    ELSE IF value = "True" \/ value = "False"
         THEN Result([attrs EXCEPT ![field] = value], None, NoExc)
         ELSE Result(attrs, None, "ValueError")

DisplayControlBackends == <<"autopy", "xdotool", "vncdotool", "qemu", "pyautogui">>

InList(x, list) == \E i \in 1..Len(list) : list[i] = x

\* (variant) no check that the name is a supported backend
DisplayControlBackendUnchecked(attrs, field, value) ==
    IF value = None
    THEN ReadField(attrs, field)
    ELSE Result([attrs EXCEPT ![field] = value], None, NoExc)

DisplayControlBackendAccessor(attrs, field, value) ==
    IF value = None
    THEN ReadField(attrs, field)
    ELSE IF ~InList(value, DisplayControlBackends)
         THEN Result(attrs, None, "ValueError")
         ELSE Result([attrs EXCEPT ![field] = value], None, NoExc)

\* the accessor function behind the property called name
Accessor(attrs, name, value) ==
    IF name \in BoolSettings THEN BoolAccessor(attrs, Field(name), value)
    ELSE IF name = "display_control_backend"
         THEN DisplayControlBackendAccessor(attrs, Field(name), value)
         ELSE FreeAccessor(attrs, Field(name), value)

\* getattr(obj, name): property(fget=f) calls f(obj), i.e. f with value None
GetAttr(attrs, name) ==
    IF name \in Settings THEN Accessor(attrs, name, None)
    ELSE IF name \in AttrNames THEN ReadField(attrs, name)
         ELSE Result(attrs, None, "AttributeError")

\* (variant) the value is put into the field without the accessor being
\* called
SetAttrBypassesAccessor(attrs, name, value) ==
    IF name \in Settings
    THEN Result([attrs EXCEPT ![Field(name)] = value], None, NoExc)
    ELSE Result([attrs EXCEPT ![name] = value], None, NoExc)

\* setattr(obj, name, value): property(fset=f) calls f(obj, value); a name
\* without a property becomes a plain instance attribute
SetAttr(attrs, name, value) ==
    IF name \in Settings THEN Accessor(attrs, name, value)
    ELSE Result([attrs EXCEPT ![name] = value], None, NoExc)

RECURSIVE ApplyInit(_, _)
ApplyInit(attrs, i) ==
    IF i > Len(InitAssignments) THEN attrs
    ELSE ApplyInit(SetAttr(attrs, InitAssignments[i][1], InitAssignments[i][2]).attrs,
                   i + 1)

\* Config(): the attributes of a freshly constructed registry
ConfigInit == ApplyInit([a \in AttrNames |-> Unset], 1)

\* ------------------------------------------------------- TemporaryConfig
\* _original_values is a dict: a sequence of <<name, value>> items in
\* insertion order, no name twice
HasKey(ov, name) == \E i \in 1..Len(ov) : ov[i][1] = name

ValueOf(ov, name) == ov[CHOOSE i \in 1..Len(ov) : ov[i][1] = name][2]

Outcome(attrs, ov, err) == [attrs |-> attrs, ov |-> ov, err |-> err]

\* (variant) reads go to a Config the object built for itself
GetattributeReadsOwnConfig(attrs, name) == GetAttr(ConfigInit, name)

\* __getattribute__: every read goes to GlobalConfig
TemporaryConfigGetattribute(attrs, name) == GetAttr(attrs, name)

\* original_values[name] = value on a dict that may hold name already
DictPut(ov, name, value) ==
    IF HasKey(ov, name)
    THEN [i \in 1..Len(ov) |-> IF ov[i][1] = name THEN <<name, value>> ELSE ov[i]]
    ELSE Append(ov, <<name, value>>)

\* (variant) the snapshot is taken at every write, not only the first
SetattrSnapshotsEveryWrite(attrs, ov, name, value) ==
    LET g == GetAttr(attrs, name) IN
    IF g.err # NoExc
    THEN Outcome(attrs, ov, g.err)
    ELSE LET s == SetAttr(attrs, name, value) IN
         Outcome(s.attrs, DictPut(ov, name, g.ret), s.err)

\* (variant) the snapshot is taken after the write instead of before it
SetattrSnapshotsAfterWrite(attrs, ov, name, value) ==
    LET s == SetAttr(attrs, name, value) IN
    IF s.err # NoExc \/ HasKey(ov, name)
    THEN Outcome(s.attrs, ov, s.err)
    ELSE LET g == GetAttr(s.attrs, name) IN
         IF g.err # NoExc THEN Outcome(s.attrs, ov, g.err)
         ELSE Outcome(s.attrs, Append(ov, <<name, g.ret>>), NoExc)

\* (variant) the snapshot is the value of a fresh Config(), not the
\* current one
SetattrSnapshotsDefault(attrs, ov, name, value) ==
    IF ~HasKey(ov, name)
    THEN LET g == GetAttr(ConfigInit, name) IN
         IF g.err # NoExc
         THEN Outcome(attrs, ov, g.err)
         ELSE LET s == SetAttr(attrs, name, value) IN
              Outcome(s.attrs, Append(ov, <<name, g.ret>>), s.err)
    ELSE LET s == SetAttr(attrs, name, value) IN
         Outcome(s.attrs, ov, s.err)

\* (variant) the item recorded at the first write is the value being
\* written, not the value GlobalConfig holds
SetattrRecordsNewValue(attrs, ov, name, value) ==
    LET s == SetAttr(attrs, name, value) IN
    IF ~HasKey(ov, name)
    THEN Outcome(s.attrs, Append(ov, <<name, value>>), s.err)
    ELSE Outcome(s.attrs, ov, s.err)

\* __setattr__: the snapshot is a read of GlobalConfig, which may raise
\* before anything is stored; the write may raise after the snapshot
TemporaryConfigSetattr(attrs, ov, name, value) ==
    IF ~HasKey(ov, name)
    THEN LET g == GetAttr(attrs, name) IN
         IF g.err # NoExc
         THEN Outcome(attrs, ov, g.err)
         ELSE LET s == SetAttr(attrs, name, value) IN
              Outcome(s.attrs, Append(ov, <<name, g.ret>>), s.err)
    ELSE LET s == SetAttr(attrs, name, value) IN
         Outcome(s.attrs, ov, s.err)

\* (variant) the first half of __setattr__ with the snapshot taken from a
\* fresh Config()
SetattrSnapshotDefault(attrs, ov, name) ==
    IF ~HasKey(ov, name)
    THEN LET g == GetAttr(ConfigInit, name) IN
         IF g.err # NoExc THEN Outcome(attrs, ov, g.err)
         ELSE Outcome(attrs, Append(ov, <<name, g.ret>>), NoExc)
    ELSE Outcome(attrs, ov, NoExc)

\* the first half of __setattr__, up to the snapshot: one read of
\* GlobalConfig
SetattrSnapshot(attrs, ov, name) ==
    IF ~HasKey(ov, name)
    THEN LET g == GetAttr(attrs, name) IN
         IF g.err # NoExc THEN Outcome(attrs, ov, g.err)
         ELSE Outcome(attrs, Append(ov, <<name, g.ret>>), NoExc)
    ELSE Outcome(attrs, ov, NoExc)

\* the second half of __setattr__: one write of GlobalConfig
SetattrStore(attrs, ov, name, value) ==
    LET s == SetAttr(attrs, name, value) IN Outcome(s.attrs, ov, s.err)

\* the restoring loop of __exit__ from item i on: a setattr that raises
\* ends the loop with the exception
RECURSIVE RestoreFrom(_, _, _)
RestoreFrom(attrs, ov, i) ==
    IF i > Len(ov) THEN Outcome(attrs, ov, NoExc)
    ELSE LET s == SetAttr(attrs, ov[i][1], ov[i][2]) IN
         IF s.err # NoExc THEN Outcome(s.attrs, ov, s.err)
         ELSE RestoreFrom(s.attrs, ov, i + 1)

\* (variant) the backup is dropped without being written back
ExitClearsOnly(attrs, ov, exc_type) == Outcome(attrs, << >>, NoExc)

\* (variant) nothing is restored when the body raised
ExitSkipsOnError(attrs, ov, exc_type) ==
    IF exc_type # NoExc
    THEN Outcome(attrs, << >>, NoExc)
    ELSE LET r == RestoreFrom(attrs, ov, 1) IN
         IF r.err # NoExc THEN r ELSE Outcome(r.attrs, << >>, NoExc)

\* (variant) the items are written back and the dict is kept
ExitKeepsDict(attrs, ov, exc_type) == RestoreFrom(attrs, ov, 1)

\* (variant) the whole registry is set back to its defaults
ExitRestoresEverything(attrs, ov, exc_type) == Outcome(ConfigInit, << >>, NoExc)

\* __exit__(*_): restore every item, then clear the dict; the arguments
\* (the class of the body's exception, or None) are ignored and None is
\* returned, so an exception of the body keeps propagating
TemporaryConfigExit(attrs, ov, exc_type) ==
    LET r == RestoreFrom(attrs, ov, 1) IN
    IF r.err # NoExc THEN r ELSE Outcome(r.attrs, << >>, NoExc)

\* ------------------------------------------------------------ LocalConfig
\* a dict is a function on its keys
EmptyDict == [x \in {} |-> x]

DictSet(d, key, value) ==
    [x \in DOMAIN d \cup {key} |-> IF x = key THEN value ELSE d[x]]

\* a LocalConfig object is the record of its three attributes
Call(self, err) == [self |-> self, err |-> err]

\* (variant) the backend is stored without the membership check
ConfigureBackendUnchecked(self, backend, category, reset) ==
    IF category # "type"
    THEN Call(self, "UnsupportedBackendError")
    ELSE LET b == IF backend = None THEN "cv" ELSE backend IN
         Call([self EXCEPT !.params =
                  DictSet(@, category, DictSet(EmptyDict, "backend", b))],
              NoExc)

\* (variant) the backend's name is put into the parameters that are there
ConfigureBackendMerges(self, backend, category, reset) ==
    IF category # "type"
    THEN Call(self, "UnsupportedBackendError")
    ELSE LET b == IF backend = None THEN "cv" ELSE backend
             old == IF category \in DOMAIN self.params
                    THEN self.params[category] ELSE EmptyDict
         IN
         IF ~InList(b, self.algorithms[self.categories[category]])
         THEN Call(self, "UnsupportedBackendError")
         ELSE Call([self EXCEPT !.params =
                       DictSet(@, category, DictSet(old, "backend", b))],
                   NoExc)

\* (variant) the parameters are emptied before the backend is checked
ConfigureBackendClearsFirst(self, backend, category, reset) ==
    IF category # "type"
    THEN Call(self, "UnsupportedBackendError")
    ELSE LET b == IF backend = None THEN "cv" ELSE backend
             cleared == [self EXCEPT !.params = DictSet(@, category, EmptyDict)]
         IN
         IF ~InList(b, self.algorithms[self.categories[category]])
         THEN Call(cleared, "UnsupportedBackendError")
         ELSE Call([self EXCEPT !.params =
                       DictSet(@, category, DictSet(EmptyDict, "backend", b))],
                   NoExc)

\* (variant) the category is not checked: the backend is looked up among
\* the backend types and stored under whatever category was given
ConfigureBackendAnyCategory(self, backend, category, reset) ==
    LET b == IF backend = None THEN "cv" ELSE backend IN
    IF ~InList(b, self.algorithms[self.categories["type"]])
    THEN Call(self, "UnsupportedBackendError")
    ELSE Call([self EXCEPT !.params =
                  DictSet(@, category, DictSet(EmptyDict, "backend", b))],
              NoExc)

\* __configure_backend(backend, category, reset)
PrivateConfigureBackend(self, backend, category, reset) ==
    IF category # "type"
    THEN Call(self, "UnsupportedBackendError")
    ELSE LET b == IF backend = None THEN "cv" ELSE backend IN
         IF ~InList(b, self.algorithms[self.categories[category]])
         THEN Call(self, "UnsupportedBackendError")
         ELSE Call([self EXCEPT !.params =
                       DictSet(@, category, DictSet(EmptyDict, "backend", b))],
                   NoExc)

\* configure_backend(backend, category, reset)
ConfigureBackend(self, backend, category, reset) ==
    PrivateConfigureBackend(self, backend, category, reset)

\* configure(reset, **kwargs): the keyword arguments are not used
Configure(self, reset) == ConfigureBackend(self, None, "type", reset)

\* (variant) the backend is compared with the configured one, not with the
\* table of algorithms
SynchronizeBackendChecksParams(self, backend, category, reset) ==
    IF category # "type"
    THEN Call(self, "UnsupportedBackendError")
    ELSE LET b == IF backend = None THEN "cv" ELSE backend IN
         IF \/ category \notin DOMAIN self.params
            \/ "backend" \notin DOMAIN self.params[category]
            \/ self.params[category]["backend"] # b
         THEN Call(self, "UninitializedBackendError")
         ELSE Call(self, NoExc)

\* (variant) a successful synchronize selects the backend
SynchronizeBackendStores(self, backend, category, reset) ==
    IF category # "type"
    THEN Call(self, "UnsupportedBackendError")
    ELSE LET b == IF backend = None THEN "cv" ELSE backend IN
         IF ~InList(b, self.algorithms[self.categories[category]])
         THEN Call(self, "UninitializedBackendError")
         ELSE Call([self EXCEPT !.params =
                       DictSet(@, category, DictSet(EmptyDict, "backend", b))],
                   NoExc)

\* the keyword argument key of a call, None when it was not given
Keyword(kwargs, key) == IF key \in DOMAIN kwargs THEN kwargs[key] ELSE None

\* (variant) the keyword arguments are handed on to configure_backend
ConfigurePassesKeywords(self, reset, kwargs) ==
    ConfigureBackend(self, Keyword(kwargs, "backend"), "type", reset)

\* configure(reset, **kwargs), called with keyword arguments: the call it
\* makes is configure_backend(reset=reset), as without them
ConfigureKeywords(self, reset, kwargs) == Configure(self, reset)

\* __synchronize_backend(backend, category, reset)
PrivateSynchronizeBackend(self, backend, category, reset) ==
    IF category # "type"
    THEN Call(self, "UnsupportedBackendError")
    ELSE LET b == IF backend = None THEN "cv" ELSE backend IN
         IF ~InList(b, self.algorithms[self.categories[category]])
         THEN Call(self, "UninitializedBackendError")
         ELSE Call(self, NoExc)

\* synchronize_backend(backend, category, reset)
SynchronizeBackend(self, backend, category, reset) ==
    PrivateSynchronizeBackend(self, backend, category, reset)

\* synchronize(*args, reset, **kwargs): the other arguments are not used
Synchronize(self, reset) == SynchronizeBackend(self, None, "type", reset)

\* self.params[category][key] = value: params is a plain dict of dicts,
\* a missing category is a KeyError
SetParam(self, category, key, value) ==
    IF category \notin DOMAIN self.params
    THEN Call(self, "KeyError")
    ELSE Call([self EXCEPT !.params =
                  DictSet(@, category, DictSet(self.params[category], key, value))],
              NoExc)

\* LocalConfig(configure, synchronize)
LocalConfigInit(configure, synchronize) ==
    LET bare == [categories |-> DictSet(EmptyDict, "type", "backend_types"),
                 algorithms |-> DictSet(EmptyDict, "backend_types", <<"cv", "dc">>),
                 params |-> EmptyDict]
        c == IF configure
             THEN PrivateConfigureBackend(bare, None, "type", FALSE)
             ELSE Call(bare, NoExc)
        s == IF synchronize /\ c.err = NoExc
             THEN PrivateSynchronizeBackend(c.self, None, "type", FALSE)
             ELSE c
    IN s

\* ------------------------------------------------------------ the state
VARIABLES
    categories,        \* LocalConfig: category -> algorithm type
    algorithms,        \* LocalConfig: algorithm type -> backend names
    params,            \* LocalConfig: category -> parameters
    called,            \* LocalConfig: the call that ran last, with its result
    configured,        \* history: a configure of "type" has succeeded
    prev,              \* history: the LocalConfig object as it was when the
                       \* call that ran last began
    earlier,           \* history: the call that ran before the last one
    pc,                \* two threads: where each is in its program
    pending,           \* two threads: the value thread A's assignment stores
    events,            \* history: the accesses of the two threads to
                       \* GlobalConfig, in the order they happened
    GlobalConfig,      \* the attributes of the registry object: the Config
                       \* instance that TemporaryConfig proxies
    original_values,   \* _original_values of each TemporaryConfig object
    depth,             \* the objects 1..depth are inside their with block
    exc,               \* the exception now propagating, or NoExc
    last,              \* the operation that ran last, with its result
    ops,               \* operations run so far
    focus,             \* the settings this scenario reads and writes
    entry,             \* history: the settings when each scope was entered
    first_seen,        \* history: each setting's value before the scope's
                       \* first write to it, as <<name, value>> pairs
    stored,            \* history: per scope and setting, how many values the
                       \* scope stored in it (up to 2) and the last of them
    touched,           \* history: per scope, the settings assigned by anyone
                       \* else since the scope was entered
    late               \* history: per scope, the settings an enclosing scope
                       \* wrote after this scope's first write to them

rvars == <<GlobalConfig, original_values, depth, exc, last, ops, focus,
           entry, first_seen, stored, touched, late>>

lvars == <<categories, algorithms, params, called, configured, prev, earlier>>

tvars == <<pc, pending, events>>

vars == <<rvars, lvars, tvars>>

\* the TemporaryConfig objects of a scenario: the with block of the second
\* is nested in the with block of the first
Overrides == <<"outer", "inner">>
Objects == DOMAIN Overrides

\* the values a scenario writes to a setting: None, legal values and
\* values its accessor has to refuse where it refuses any
Inputs(name) ==
    IF name \in BoolSettings THEN {None, "True", "False", "1.3"}
    ELSE IF name = "display_control_backend"
         THEN {None, "autopy", "xdotool", "vncdotool", "qemu", "pyautogui",
               "hybrid"}
         ELSE {None, "1.3", "xdotool"}

\* the values a scenario writes through a TemporaryConfig object
ScopedInputs(name) == Inputs(name) \ {"autopy", "vncdotool", "qemu"}

\* the scenarios: each setting alone, and one pair of settings
FocusSets ==
    {{n} : n \in Settings} \cup {{"toggle_delay", "wait_for_animations"}}

\* by is 0 for GlobalConfig itself and k for the TemporaryConfig object k
Op(op, by, name, value, err) ==
    [op |-> op, by |-> by, name |-> name, value |-> value, err |-> err]

\* the settings of the scenario as GlobalConfig has them
Snapshot(attrs, names) == [n \in names |-> attrs[Field(n)]]

NoEntry == [n \in focus |-> Unset]
NothingStored == [n \in focus |-> [count |-> 0, last |-> "-"]]

RegistryInit ==
    /\ GlobalConfig = ConfigInit
    /\ original_values = [k \in Objects |-> << >>]
    /\ depth = 0
    /\ exc = NoExc
    /\ last = Op("init", 0, "-", "-", NoExc)
    /\ ops = 0
    /\ focus \in FocusSets
    /\ entry = [k \in Objects |-> NoEntry]
    /\ first_seen = [k \in Objects |-> {}]
    /\ stored = [k \in Objects |-> NothingStored]
    /\ touched = [k \in Objects |-> {}]
    /\ late = [k \in Objects |-> {}]

Running == exc = NoExc /\ ops < MaxOps

\* the history of a scope is dropped with the first operation after its exit
Keep(h, blank) == [j \in Objects |-> IF j > depth THEN blank ELSE h[j]]

SameHistory ==
    /\ entry' = Keep(entry, NoEntry)
    /\ first_seen' = Keep(first_seen, {})
    /\ stored' = Keep(stored, NothingStored)
    /\ touched' = Keep(touched, {})
    /\ late' = Keep(late, {})

Seen(k) == {p[1] : p \in first_seen[k]}

\* name was assigned by `by`: every other open scope has it touched
Touch(by, name) ==
    [j \in Objects |-> IF j > depth THEN {}
                       ELSE IF j # by THEN touched[j] \cup {name}
                       ELSE touched[j]]

\* GlobalConfig.name = value
DirectWrite(name, value) ==
    /\ Running
    /\ name \in focus
    /\ value \in Inputs(name)
    /\ LET r == SetAttr(GlobalConfig, name, value) IN
       /\ GlobalConfig' = r.attrs
       /\ exc' = r.err
       /\ last' = Op("write", 0, name, value, r.err)
       /\ touched' = IF r.attrs # GlobalConfig \/ (r.err = NoExc /\ value # None)
                     THEN Touch(0, name) ELSE Keep(touched, {})
    /\ ops' = ops + 1
    /\ entry' = Keep(entry, NoEntry)
    /\ first_seen' = Keep(first_seen, {})
    /\ stored' = Keep(stored, NothingStored)
    /\ late' = Keep(late, {})
    /\ UNCHANGED <<original_values, depth, focus>>
    /\ UNCHANGED <<lvars, tvars>>

\* GlobalConfig.name
DirectRead(name) ==
    /\ Running
    /\ name \in focus
    /\ LET r == GetAttr(GlobalConfig, name) IN
       /\ exc' = r.err
       /\ last' = Op("read", 0, name, r.ret, r.err)
    /\ ops' = ops + 1
    /\ SameHistory
    /\ UNCHANGED <<GlobalConfig, original_values, depth, focus>>
    /\ UNCHANGED <<lvars, tvars>>

\* with cfg: (cfg a new TemporaryConfig(), or the object of a with block
\* that has ended, entered again): __enter__ returns the object
Enter ==
    /\ Running
    /\ depth < Len(Overrides)
    /\ depth' = depth + 1
    /\ last' = Op("enter", depth + 1, "-", "-", NoExc)
    /\ entry' = [Keep(entry, NoEntry) EXCEPT
                    ![depth + 1] = Snapshot(GlobalConfig, focus)]
    /\ first_seen' = Keep(first_seen, {})
    /\ stored' = Keep(stored, NothingStored)
    /\ touched' = Keep(touched, {})
    /\ late' = Keep(late, {})
    /\ ops' = ops + 1
    /\ UNCHANGED <<GlobalConfig, original_values, exc, focus>>
    /\ UNCHANGED <<lvars, tvars>>

\* cfg.name = value, through the object k of an open scope
ScopedWrite(k, name, value) ==
    /\ Running
    /\ k \in 1..depth
    /\ name \in focus
    /\ value \in ScopedInputs(name)
    /\ LET r == TemporaryConfigSetattr(GlobalConfig, original_values[k], name, value)
           before == GetAttr(GlobalConfig, name)
           applied == r.err = NoExc /\ value # None
       IN
       /\ GlobalConfig' = r.attrs
       /\ original_values' = [original_values EXCEPT ![k] = r.ov]
       /\ exc' = r.err
       /\ last' = Op("write", k, name, value, r.err)
       /\ first_seen' =
            IF before.err = NoExc /\ name \notin Seen(k)
            THEN [Keep(first_seen, {}) EXCEPT ![k] = @ \cup {<<name, before.ret>>}]
            ELSE Keep(first_seen, {})
       /\ stored' =
            IF applied
            THEN [Keep(stored, NothingStored) EXCEPT ![k][name] =
                     [count |-> IF @.count < 2 THEN @.count + 1 ELSE 2,
                      last |-> value]]
            ELSE Keep(stored, NothingStored)
       /\ touched' = IF applied \/ r.attrs # GlobalConfig
                     THEN Touch(k, name) ELSE Keep(touched, {})
       /\ late' =
            IF applied
            THEN [j \in Objects |->
                    IF j > depth THEN {}
                    ELSE IF j > k /\ name \in Seen(j) THEN late[j] \cup {name}
                    ELSE late[j]]
            ELSE Keep(late, {})
    /\ ops' = ops + 1
    /\ entry' = Keep(entry, NoEntry)
    /\ UNCHANGED <<depth, focus>>
    /\ UNCHANGED <<lvars, tvars>>

\* cfg.name, through the object k of an open scope
ScopedRead(k, name) ==
    /\ Running
    /\ k \in 1..depth
    /\ name \in focus
    /\ LET r == TemporaryConfigGetattribute(GlobalConfig, name) IN
       /\ exc' = r.err
       /\ last' = Op("read", k, name, r.ret, r.err)
    /\ ops' = ops + 1
    /\ SameHistory
    /\ UNCHANGED <<GlobalConfig, original_values, depth, focus>>
    /\ UNCHANGED <<lvars, tvars>>

\* the body of the innermost with block raises an error of its own
Raise ==
    /\ Running
    /\ depth > 0
    /\ exc' = "RuntimeError"
    /\ last' = Op("raise", depth, "-", "-", "RuntimeError")
    /\ ops' = ops + 1
    /\ SameHistory
    /\ UNCHANGED <<GlobalConfig, original_values, depth, focus>>
    /\ UNCHANGED <<lvars, tvars>>

\* the innermost with block ends, normally or because an exception leaves
\* it: __exit__ of its object runs and the exception, if any, goes on
Exit ==
    /\ depth > 0
    /\ LET r == TemporaryConfigExit(GlobalConfig, original_values[depth], exc) IN
       /\ GlobalConfig' = r.attrs
       /\ original_values' = [original_values EXCEPT ![depth] = r.ov]
       /\ exc' = IF r.err # NoExc THEN r.err ELSE exc
       /\ last' = Op("exit", depth, "-",
                     IF exc = NoExc THEN "normal" ELSE "unwinding", r.err)
       /\ touched' =
            [j \in Objects |->
                IF j > depth THEN {}
                ELSE IF j < depth
                THEN touched[j] \cup {n \in focus : r.attrs[Field(n)] # GlobalConfig[Field(n)]}
                ELSE touched[j]]
    /\ depth' = depth - 1
    /\ entry' = Keep(entry, NoEntry)
    /\ first_seen' = Keep(first_seen, {})
    /\ stored' = Keep(stored, NothingStored)
    /\ late' = Keep(late, {})
    /\ UNCHANGED <<ops, focus>>
    /\ UNCHANGED <<lvars, tvars>>

\* an except clause around the failed statement handles the exception
Catch ==
    /\ exc # NoExc
    /\ exc' = NoExc
    /\ last' = Op("catch", depth, "-", "-", NoExc)
    /\ SameHistory
    /\ UNCHANGED <<GlobalConfig, original_values, depth, ops, focus>>
    /\ UNCHANGED <<lvars, tvars>>

\* ------------------------------------------------- LocalConfig's calls
Self == [categories |-> categories, algorithms |-> algorithms, params |-> params]

Backends == {None, "cv", "dc", "hybrid"}
CategoryNames == {"type", "dc", "backend_types"}

Called(op, backend, category, reset, err) ==
    [op |-> op, backend |-> backend, category |-> category, reset |-> reset,
     err |-> err]

Becomes(r) ==
    /\ categories' = r.self.categories
    /\ algorithms' = r.self.algorithms
    /\ params' = r.self.params

\* a call begins: the history moves on
Began ==
    /\ prev' = Self
    /\ earlier' = called

\* the parameters a caller adds next to the backend's name
ParamKeys == {"vnc_hostname", "vnc_port"}
ParamValues == {"localhost"}

LocalInit(configure, synchronize) ==
    LET r == LocalConfigInit(configure, synchronize) IN
    /\ categories = r.self.categories
    /\ algorithms = r.self.algorithms
    /\ params = r.self.params
    /\ called = Called("__init__", IF configure THEN "configure" ELSE "-",
                       IF synchronize THEN "synchronize" ELSE "-", FALSE, r.err)
    /\ configured = configure
    /\ prev = r.self
    /\ earlier = Called("-", "-", "-", FALSE, NoExc)

DoConfigureBackend(backend, category, reset) ==
    /\ LET r == ConfigureBackend(Self, backend, category, reset) IN
       /\ Becomes(r)
       /\ called' = Called("configure_backend", backend, category, reset, r.err)
       /\ configured' = (configured \/ (r.err = NoExc /\ category = "type"))
    /\ Began
    /\ UNCHANGED <<rvars, tvars>>

DoConfigure(reset) ==
    /\ LET r == Configure(Self, reset) IN
       /\ Becomes(r)
       /\ called' = Called("configure", "-", "-", reset, r.err)
       /\ configured' = (configured \/ r.err = NoExc)
    /\ Began
    /\ UNCHANGED <<rvars, tvars>>

\* the keyword arguments a caller gives to configure
Keywords ==
    {DictSet(EmptyDict, "backend", "dc"), DictSet(EmptyDict, "backend", "hybrid"),
     DictSet(EmptyDict, "category", "dc")}

DoConfigureKeywords(reset, kwargs) ==
    /\ LET r == ConfigureKeywords(Self, reset, kwargs) IN
       /\ Becomes(r)
       /\ called' = Called("configure", Keyword(kwargs, "backend"),
                           Keyword(kwargs, "category"), reset, r.err)
       /\ configured' = (configured \/ r.err = NoExc)
    /\ Began
    /\ UNCHANGED <<rvars, tvars>>

DoSynchronizeBackend(backend, category, reset) ==
    /\ LET r == SynchronizeBackend(Self, backend, category, reset) IN
       /\ Becomes(r)
       /\ called' = Called("synchronize_backend", backend, category, reset, r.err)
    /\ Began
    /\ UNCHANGED <<configured, rvars, tvars>>

DoSynchronize(reset) ==
    /\ LET r == Synchronize(Self, reset) IN
       /\ Becomes(r)
       /\ called' = Called("synchronize", "-", "-", reset, r.err)
    /\ Began
    /\ UNCHANGED <<configured, rvars, tvars>>

\* self.params[category][key] = value, by the code that owns the object
DoSetParam(category, key, value) ==
    /\ LET r == SetParam(Self, category, key, value) IN
       /\ Becomes(r)
       /\ called' = Called("setitem", key, category, FALSE, r.err)
    /\ Began
    /\ UNCHANGED <<configured, rvars, tvars>>

\* ------------------------------------------------------ two threads
\* Thread A runs  with TemporaryConfig() as cfg: cfg.S = value  and thread
\* B runs  GlobalConfig.S = w  up to two times, S being the setting of the
\* scenario.  Nothing in config.py takes a lock, so the threads interleave
\* between any two accesses to GlobalConfig: the read of the snapshot, the
\* write of the value and the write of the restoration are steps of their
\* own.  _original_values belongs to thread A's object alone.
Event(who, what, value, applied) ==
    [who |-> who, what |-> what, value |-> value, applied |-> applied]

ThreadsInit ==
    /\ pc = [A |-> "enter", B |-> "first"]
    /\ pending = None
    /\ events = << >>

\* the history of the single-threaded scenarios stays as it is
SameScenario ==
    UNCHANGED <<depth, last, ops, focus, entry, first_seen, stored, touched, late>>

\* thread A: __enter__
AEnter(name) ==
    /\ pc.A = "enter"
    /\ pc' = [pc EXCEPT !.A = "snapshot"]
    /\ events' = Append(events, Event("A", "enter", GlobalConfig[Field(name)], FALSE))
    /\ UNCHANGED <<GlobalConfig, original_values, exc, pending>>
    /\ SameScenario
    /\ UNCHANGED lvars

\* thread A: cfg.name = value, up to the snapshot
ASnapshot(name, value) ==
    /\ pc.A = "snapshot"
    /\ LET r == SetattrSnapshot(GlobalConfig, original_values[1], name) IN
       /\ original_values' = [original_values EXCEPT ![1] = r.ov]
       /\ exc' = r.err
       /\ pc' = [pc EXCEPT !.A = IF r.err = NoExc THEN "store" ELSE "exit"]
       /\ events' = Append(events,
                       Event("A", "snapshot",
                             IF r.err = NoExc THEN ValueOf(r.ov, name) ELSE r.err,
                             r.err = NoExc))
    /\ pending' = value
    /\ UNCHANGED GlobalConfig
    /\ SameScenario
    /\ UNCHANGED lvars

\* thread A: cfg.name = value, the write
AStore(name) ==
    /\ pc.A = "store"
    /\ LET r == SetattrStore(GlobalConfig, original_values[1], name, pending) IN
       /\ GlobalConfig' = r.attrs
       /\ exc' = r.err
       /\ events' = Append(events,
                       Event("A", "store", pending, r.err = NoExc /\ pending # None))
    /\ pc' = [pc EXCEPT !.A = "exit"]
    /\ UNCHANGED <<original_values, pending>>
    /\ SameScenario
    /\ UNCHANGED lvars

\* thread A: __exit__; original_values has at most the item of the one
\* setting, so the loop writes GlobalConfig at most once
AExit(name) ==
    /\ pc.A = "exit"
    /\ LET r == TemporaryConfigExit(GlobalConfig, original_values[1], exc) IN
       /\ GlobalConfig' = r.attrs
       /\ original_values' = [original_values EXCEPT ![1] = r.ov]
       /\ exc' = IF r.err # NoExc THEN r.err ELSE exc
       /\ events' = Append(events,
                       Event("A", "restore", r.attrs[Field(name)],
                             r.err = NoExc /\ original_values[1] # << >>))
    /\ pc' = [pc EXCEPT !.A = "done"]
    /\ UNCHANGED pending
    /\ SameScenario
    /\ UNCHANGED lvars

\* thread B: GlobalConfig.name = value; an exception ends the thread
BWrite(name, value) ==
    /\ pc.B \in {"first", "second"}
    /\ LET r == SetAttr(GlobalConfig, name, value) IN
       /\ GlobalConfig' = r.attrs
       /\ events' = Append(events,
                       Event("B", "write", value, r.err = NoExc /\ value # None))
       /\ pc' = [pc EXCEPT !.B = IF r.err # NoExc \/ pc.B = "second"
                                  THEN "done" ELSE "second"]
    /\ UNCHANGED <<original_values, exc, pending>>
    /\ SameScenario
    /\ UNCHANGED lvars

\* ------------------------------------------------------ one object re-used
\* cfg = TemporaryConfig() is used for one  with cfg: ...  block after the
\* other, each inside a try/except of the caller; between and inside the
\* blocks GlobalConfig is written directly, and after a block cfg.__exit__
\* may be called once more.  An exception raised outside the blocks ends
\* the program.  S is the setting of the scenario.  events has one record
\* for each block: the value of S its first write found, the value of S
\* its __exit__ left, and what further __exit__ calls did.
Scope(first, restored, again) ==
    [first |-> first, restored |-> restored, again |-> again]

ReuseInit ==
    /\ pc = [cfg |-> "closed", scopes |-> 0]
    /\ pending = None
    /\ events = << >>

\* with cfg: -- __enter__ returns the object and changes nothing
ReuseEnter ==
    /\ pc.cfg = "closed"
    /\ exc = NoExc
    /\ pc.scopes < MaxScopes
    /\ pc' = [cfg |-> "open", scopes |-> pc.scopes + 1]
    /\ events' = Append(events, Scope("-", "-", "-"))
    /\ UNCHANGED <<GlobalConfig, original_values, exc, pending>>
    /\ SameScenario
    /\ UNCHANGED lvars

\* cfg.name = value  in the body of the block
ReuseWrite(name, value) ==
    /\ pc.cfg = "open"
    /\ exc = NoExc
    /\ LET r == TemporaryConfigSetattr(GlobalConfig, original_values[1], name, value)
           now == events[Len(events)]
           found == GlobalConfig[Field(name)] IN
       /\ GlobalConfig' = r.attrs
       /\ original_values' = [original_values EXCEPT ![1] = r.ov]
       /\ exc' = r.err
       /\ events' = [events EXCEPT ![Len(events)] =
                        IF now.first = "-" /\ found # Unset
                        THEN Scope(found, now.restored, now.again)
                        ELSE now]
    /\ UNCHANGED <<pc, pending>>
    /\ SameScenario
    /\ UNCHANGED lvars

\* GlobalConfig.name = value; inside a block an exception leaves the block
ReuseDirectWrite(name, value) ==
    /\ exc = NoExc
    /\ LET r == SetAttr(GlobalConfig, name, value) IN
       /\ GlobalConfig' = r.attrs
       /\ exc' = r.err
    /\ UNCHANGED <<original_values, pc, pending, events>>
    /\ SameScenario
    /\ UNCHANGED lvars

\* the end of the block: __exit__, then the caller's except clause
ReuseExit(name) ==
    /\ pc.cfg = "open"
    /\ LET r == TemporaryConfigExit(GlobalConfig, original_values[1], exc)
           now == events[Len(events)] IN
       /\ GlobalConfig' = r.attrs
       /\ original_values' = [original_values EXCEPT ![1] = r.ov]
       /\ exc' = r.err
       /\ events' = [events EXCEPT ![Len(events)] =
                        Scope(now.first, r.attrs[Field(name)], now.again)]
    /\ pc' = [pc EXCEPT !.cfg = "closed"]
    /\ UNCHANGED pending
    /\ SameScenario
    /\ UNCHANGED lvars

\* cfg.__exit__(None, None, None)  after the block has ended
ReuseExitAgain ==
    /\ pc.cfg = "closed"
    /\ pc.scopes > 0
    /\ exc = NoExc
    /\ LET r == TemporaryConfigExit(GlobalConfig, original_values[1], NoExc)
           now == events[Len(events)] IN
       /\ GlobalConfig' = r.attrs
       /\ original_values' = [original_values EXCEPT ![1] = r.ov]
       /\ exc' = r.err
       /\ events' = [events EXCEPT ![Len(events)] =
                        Scope(now.first, now.restored,
                              IF r.attrs # GlobalConfig \/ now.again = "changed"
                              THEN "changed" ELSE "same")]
    /\ UNCHANGED <<pc, pending>>
    /\ SameScenario
    /\ UNCHANGED lvars

\* ------------------------------------------------------ specifications
\* the registry and its scoped overrides
Init == RegistryInit /\ LocalInit(TRUE, TRUE) /\ ThreadsInit

Next ==
    \/ \E name \in focus : \E value \in Inputs(name) : DirectWrite(name, value)
    \/ \E name \in focus : DirectRead(name)
    \/ Enter
    \/ \E k \in Objects : \E name \in focus : \E value \in ScopedInputs(name) :
          ScopedWrite(k, name, value)
    \/ \E k \in Objects : \E name \in focus : ScopedRead(k, name)
    \/ Raise
    \/ Exit
    \/ Catch

Spec == Init /\ [][Next]_vars

\* one LocalConfig object, built with any of its constructor's arguments
InitLocal ==
    /\ RegistryInit
    /\ focus = {"toggle_delay"}
    /\ \E configure \in BOOLEAN, synchronize \in BOOLEAN :
          LocalInit(configure, synchronize)
    /\ ThreadsInit

NextLocal ==
    \/ \E backend \in Backends, category \in CategoryNames, reset \in BOOLEAN :
          DoConfigureBackend(backend, category, reset)
    \/ \E reset \in BOOLEAN : DoConfigure(reset)
    \/ \E reset \in BOOLEAN, kwargs \in Keywords : DoConfigureKeywords(reset, kwargs)
    \/ \E backend \in Backends, category \in CategoryNames, reset \in BOOLEAN :
          DoSynchronizeBackend(backend, category, reset)
    \/ \E reset \in BOOLEAN : DoSynchronize(reset)
    \/ \E key \in ParamKeys, value \in ParamValues : DoSetParam("type", key, value)

SpecLocal == InitLocal /\ [][NextLocal]_vars

\* a scoped override in one thread and direct writes in another
InitThreads ==
    /\ RegistryInit
    /\ \E name \in Settings : focus = {name}
    /\ LocalInit(TRUE, TRUE)
    /\ ThreadsInit

NextThreads ==
    \/ \E name \in focus : AEnter(name)
    \/ \E name \in focus : \E value \in Inputs(name) : ASnapshot(name, value)
    \/ \E name \in focus : AStore(name)
    \/ \E name \in focus : AExit(name)
    \/ \E name \in focus : \E value \in Inputs(name) : BWrite(name, value)

SpecThreads == InitThreads /\ [][NextThreads]_vars

\* one TemporaryConfig object used for one scope after the other
InitReuse ==
    /\ RegistryInit
    /\ \E name \in Settings : focus = {name}
    /\ LocalInit(TRUE, TRUE)
    /\ ReuseInit

NextReuse ==
    \/ ReuseEnter
    \/ \E name \in focus : \E value \in Inputs(name) : ReuseWrite(name, value)
    \/ \E name \in focus : \E value \in Inputs(name) : ReuseDirectWrite(name, value)
    \/ \E name \in focus : ReuseExit(name)
    \/ ReuseExitAgain

SpecReuse == InitReuse /\ [][NextReuse]_vars

\* ------------------------------------------------------------ properties
\* the error kinds of the specification as the classes the code raises
InvalidValue == "ValueError"
UnsupportedBackend == "UnsupportedBackendError"

\* read(S): what a read of the setting gives in the current state
Read(name) == GetAttr(GlobalConfig, name)
Returns(value) == Result(GlobalConfig, value, NoExc)

\* the last operation was __exit__ of the object last.by
Exited == last.op = "exit"

\* C1: a setting that holds x when a scope is entered, and is then written
\* twice through the scope's object, reads as the value written last while
\* the scope is open and as x again after the exit: the first write alone
\* takes the snapshot and one restoration brings x back.
ScopeRestoresAfterTwoWrites ==
    /\ \A name \in focus :
          (/\ last.op = "write" /\ last.by > 0 /\ last.name = name
           /\ last.err = NoExc /\ last.value # None
           /\ stored[last.by][name].count = 2)
          => Read(name) = Returns(last.value)
    /\ Exited =>
          \A name \in focus :
             (stored[last.by][name].count = 2 /\ name \notin touched[last.by])
             => /\ last.err = NoExc
                /\ entry[last.by][name] # Unset
                /\ Read(name) = Returns(entry[last.by][name])
                /\ original_values[last.by] = << >>

WrittenTwiceAndRestored ==
    /\ Exited
    /\ \E name \in focus :
          /\ stored[last.by][name].count = 2
          /\ name \notin touched[last.by]
          /\ stored[last.by][name].last # entry[last.by][name]
          /\ Read(name) = Returns(entry[last.by][name])

\* C2 as stated: after the exit every setting written through the object
\* holds the value it held when the scope was entered.
ScopeRestoresEntryValues ==
    Exited =>
       \A name \in focus :
          stored[last.by][name].count >= 1
          => GlobalConfig[Field(name)] = entry[last.by][name]

\* C2 as amended: after the exit every setting written through the object
\* holds the value it held immediately before the first write made to it
\* through the object, whatever was read or written meanwhile.
ScopeRestoresFirstSeen ==
    Exited =>
       /\ last.err = NoExc
       /\ \A p \in first_seen[last.by] : Read(p[1]) = Returns(p[2])

DirectWriteBeforeScopedWriteRestored ==
    /\ Exited
    /\ \E p \in first_seen[last.by] :
          /\ p[2] # entry[last.by][p[1]]
          /\ stored[last.by][p[1]].count >= 1
          /\ stored[last.by][p[1]].last # p[2]
          /\ Read(p[1]) = Returns(p[2])

\* C3: when the body of the scope fails after a value was stored through
\* the object, __exit__ still restores: the setting reads as the value it
\* had before the scope, and the error goes on past the exit.
ScopeRestoresOnError ==
    (Exited /\ last.value = "unwinding") =>
       /\ last.err = NoExc
       /\ exc # NoExc
       /\ \A name \in focus :
             (stored[last.by][name].count >= 1 /\ name \notin touched[last.by])
             => Read(name) = Returns(entry[last.by][name])

RestoredAfterRejectedWrite ==
    /\ Exited
    /\ last.value = "unwinding"
    /\ exc = "ValueError"
    /\ \E name \in focus :
          /\ stored[last.by][name].count >= 1
          /\ name \notin touched[last.by]
          /\ stored[last.by][name].last # entry[last.by][name]
          /\ Read(name) = Returns(entry[last.by][name])

\* C4: while a scope is open, original_values has one item per setting
\* written through the object, holding the value the registry had
\* immediately before the first of these writes; later writes through the
\* object, stored or rejected, leave the item alone.
OriginalValuesAreFirstSeen ==
    \A k \in 1..depth :
       LET ov == original_values[k] IN
       /\ \A i, j \in 1..Len(ov) : ov[i][1] = ov[j][1] => i = j
       /\ {<<ov[i][1], ov[i][2]>> : i \in 1..Len(ov)} = first_seen[k]

SnapshotKeptOverLaterWrites ==
    \E k \in 1..depth : \E name \in focus :
       /\ stored[k][name].count = 2
       /\ HasKey(original_values[k], name)
       /\ ValueOf(original_values[k], name) # GlobalConfig[Field(name)]
       /\ last.op = "write" /\ last.by = k /\ last.name = name
       /\ last.err = "ValueError"

\* C5 as stated: when the inner of two nested scopes exits, each setting
\* it wrote holds the value the outer scope set last for it.
InnerExitRestoresOuterLatest ==
    (Exited /\ last.by > 1) =>
       \A name \in focus :
          (stored[last.by][name].count >= 1
             /\ stored[last.by - 1][name].count >= 1)
          => GlobalConfig[Field(name)] = stored[last.by - 1][name].last

\* C5 as amended: when the inner scope exits, a setting it wrote holds the
\* value the outer scope set last for it, provided the setting still held
\* that value at the inner scope's first write to it and the outer scope
\* did not write it again afterwards.
InnerExitRestoresOuterValue ==
    (Exited /\ last.by > 1) =>
       \A p \in first_seen[last.by] :
          (/\ stored[last.by][p[1]].count >= 1
           /\ stored[last.by - 1][p[1]].count >= 1
           /\ p[1] \notin late[last.by]
           /\ p[2] = stored[last.by - 1][p[1]].last)
          => Read(p[1]) = Returns(stored[last.by - 1][p[1]].last)

InnerRestoredOuterValue ==
    /\ Exited
    /\ last.by > 1
    /\ \E p \in first_seen[last.by] :
          /\ stored[last.by][p[1]].count >= 1
          /\ stored[last.by - 1][p[1]].count >= 1
          /\ p[1] \notin late[last.by]
          /\ p[2] = stored[last.by - 1][p[1]].last
          /\ p[2] # ConfigInit[Field(p[1])]
          /\ stored[last.by][p[1]].last # p[2]
          /\ Read(p[1]) = Returns(p[2])

\* C6 as stated: a write to a boolean setting of anything but True or
\* False fails with InvalidValue; True and False are stored and read back.
BoolSettingsRejectEveryNonBool ==
    (last.op = "write" /\ last.name \in BoolSettings) =>
       IF last.value \in {"True", "False"}
       THEN last.err = NoExc /\ Read(last.name) = Returns(last.value)
       ELSE last.err = InvalidValue

\* C6 as amended: a write to a boolean setting of anything but True, False
\* or None fails with InvalidValue; True and False are stored and read
\* back; None raises nothing.
BoolSettingsRejectNonBool ==
    (last.op = "write" /\ last.name \in BoolSettings) =>
       IF last.value \in {"True", "False"}
       THEN last.err = NoExc /\ Read(last.name) = Returns(last.value)
       ELSE IF last.value = None THEN last.err = NoExc
            ELSE last.err = InvalidValue

NonBoolRejected ==
    /\ last.op = "write"
    /\ last.name = "save_needle_on_error"
    /\ last.value = "1.3"
    /\ last.err = InvalidValue
    /\ Read("save_needle_on_error") = Returns("True")

\* the strings among the values the scenarios write
Strings == {"autopy", "xdotool", "vncdotool", "qemu", "pyautogui", "hybrid"}

SupportedDisplayControlBackends ==
    {"autopy", "xdotool", "vncdotool", "qemu", "pyautogui"}

BackendNameSettings ==
    {"find_backend", "contour_threshold_backend", "template_match_backend",
     "feature_detect_backend", "feature_extract_backend",
     "feature_match_backend", "text_detect_backend", "text_ocr_backend",
     "deep_learn_backend", "hybrid_match_backend"}

\* C7 as stated: display_control_backend takes the five supported names
\* and refuses every other string with UnsupportedBackend; the other
\* backend settings take any string.
DisplayControlBackendRaisesUnsupported ==
    /\ (last.op = "write" /\ last.name = "display_control_backend"
          /\ last.value \in Strings) =>
          IF last.value \in SupportedDisplayControlBackends
          THEN last.err = NoExc /\ Read(last.name) = Returns(last.value)
          ELSE last.err = UnsupportedBackend
    /\ (last.op = "write" /\ last.name \in BackendNameSettings
          /\ last.value \in Strings) =>
          (last.err = NoExc /\ Read(last.name) = Returns(last.value))

\* C7 as amended: display_control_backend takes the five supported names
\* and refuses every other string with ValueError, the InvalidValue kind
\* of the boolean settings; the other backend settings take any string.
DisplayControlBackendChecked ==
    /\ (last.op = "write" /\ last.name = "display_control_backend"
          /\ last.value \in Strings) =>
          IF last.value \in SupportedDisplayControlBackends
          THEN last.err = NoExc /\ Read(last.name) = Returns(last.value)
          ELSE last.err = InvalidValue
    /\ (last.op = "write" /\ last.name \in BackendNameSettings
          /\ last.value \in Strings) =>
          (last.err = NoExc /\ Read(last.name) = Returns(last.value))

UnknownBackendRejected ==
    /\ last.op = "write"
    /\ last.name = "display_control_backend"
    /\ last.value = "hybrid"
    /\ last.err = InvalidValue
    /\ Read("display_control_backend") = Returns("qemu")

\* the values a setting may legally take
Legal(name, value) ==
    /\ value # None
    /\ name \in BoolSettings => value \in {"True", "False"}
    /\ name = "display_control_backend" =>
          value \in SupportedDisplayControlBackends

\* C8: a write of a legal value through a setting's accessor succeeds and
\* a read right after it returns the value, in whatever state of the
\* registry and of the scopes the write is made.
RoundTrip ==
    (last.op = "write" /\ last.by = 0 /\ Legal(last.name, last.value)) =>
       /\ last.err = NoExc
       /\ Read(last.name) = Returns(last.value)

RoundTripInsideScope ==
    /\ last.op = "write" /\ last.by = 0
    /\ last.name = "delay_before_drop"
    /\ last.value = "1.3"
    /\ depth = 2
    /\ Read("delay_before_drop") = Returns("1.3")

\* the name __init__ assigns for a setting
InitName(name) ==
    CASE name = "delay_after_drag" -> "drag_delay"
      [] name = "delay_before_drop" -> "drop_delay"
      [] name = "delay_before_keys" -> "keys_delay"
      [] name = "delay_between_keys" -> "type_delay"
      [] OTHER -> name

\* the default __init__ gives for a setting
DocumentedDefault(name) ==
    InitAssignments[CHOOSE i \in 1..Len(InitAssignments) :
                       InitAssignments[i][1] = InitName(name)][2]

\* C9: right after the registry is built every setting can be read and
\* reads as its documented default.
DefaultsReadable ==
    last.op = "init" =>
       \A name \in Settings : Read(name) = Returns(DocumentedDefault(name))

\* C10: once a configure of "type" has succeeded, params["type"]["backend"]
\* is one of algorithms[categories["type"]], whatever calls follow.
ConfiguredBackendIsAdmissible ==
    configured =>
       /\ "type" \in DOMAIN params
       /\ "backend" \in DOMAIN params["type"]
       /\ InList(params["type"]["backend"], algorithms[categories["type"]])

SelectionSurvivesFailedConfigure ==
    /\ configured
    /\ called.op = "configure_backend"
    /\ called.backend = "hybrid"
    /\ called.err = "UnsupportedBackendError"
    /\ params["type"]["backend"] = "dc"

\* the calls that synchronize
SynchronizeCalls == {"synchronize_backend", "synchronize"}

UninitializedBackend == "UninitializedBackendError"

\* the backend a call works with: an omitted one is "cv"
Effective(backend) == IF backend \in {None, "-"} THEN "cv" ELSE backend

\* the admissible backends of category "type"
Admissible(b) == InList(b, algorithms[categories["type"]])

\* the last call was op on category "type"
CalledOnType(op) ==
    /\ called.op = op
    /\ called.category \in {"type", "-"}

\* C11: a synchronize of "type" succeeds only after a configure has
\* populated params["type"], the constructor's own synchronize included.
SynchronizeNeedsConfigure ==
    /\ (called.op \in SynchronizeCalls /\ called.category \in {"type", "-"}
          /\ called.err = NoExc)
       => (configured /\ "type" \in DOMAIN params)
    /\ (called.op = "__init__" /\ called.category = "synchronize"
          /\ called.err = NoExc)
       => (configured /\ "type" \in DOMAIN params)

ConfigureBackendReplacesParams ==
    (CalledOnType("configure_backend") /\ called.err = NoExc) =>
       /\ "type" \in DOMAIN params
       /\ params["type"] = DictSet(EmptyDict, "backend", Effective(called.backend))

ParamsDiscardedByConfigure ==
    /\ CalledOnType("configure_backend")
    /\ called.err = NoExc
    /\ called.backend = None
    /\ "type" \in DOMAIN prev.params
    /\ DOMAIN prev.params["type"] = {"backend", "vnc_hostname", "vnc_port"}
    /\ prev.params["type"]["backend"] = "dc"
    /\ params["type"] = DictSet(EmptyDict, "backend", "cv")

\* C14: configure_backend(backend, "type") with a backend that is not one
\* of algorithms[categories["type"]] fails with UnsupportedBackend and
\* leaves the object, params included, as it was when the call began.
ConfigureBackendRejectsUnsupported ==
    (CalledOnType("configure_backend")
        /\ ~Admissible(Effective(called.backend))) =>
       /\ called.err = UnsupportedBackend
       /\ Self = prev

ParamsSurviveFailedConfigure ==
    /\ CalledOnType("configure_backend")
    /\ called.backend = "hybrid"
    /\ called.err = UnsupportedBackend
    /\ params = prev.params
    /\ "type" \in DOMAIN params
    /\ DOMAIN params["type"] = {"backend", "vnc_hostname"}
    /\ params["type"]["backend"] = "dc"

\* the calls that take a category
CategoryCalls == {"configure_backend", "synchronize_backend"}

\* C15 as stated: configure_backend and synchronize_backend with a
\* category other than "type" fail with an error of a kind of its own,
\* neither UnsupportedBackend nor UninitializedBackend, and leave the
\* object as it was.
OtherCategoryRaisesUnsupportedCategory ==
    (called.op \in CategoryCalls /\ called.category # "type") =>
       /\ called.err \notin {NoExc, UnsupportedBackend, UninitializedBackend}
       /\ Self = prev

\* C15 as amended: configure_backend and synchronize_backend with a
\* category other than "type" fail with UnsupportedBackendError, the error
\* of an unsupported backend, whatever the backend is, and leave the
\* object as it was.
OtherCategoryRaisesUnsupportedBackend ==
    (called.op \in CategoryCalls /\ called.category # "type") =>
       /\ called.err = UnsupportedBackend
       /\ Self = prev

OtherCategoryRejected ==
    /\ called.op = "configure_backend"
    /\ called.category = "dc"
    /\ called.backend = "cv"
    /\ called.err = UnsupportedBackend
    /\ Self = prev
    /\ "type" \in DOMAIN params
    /\ params["type"]["backend"] = "dc"

\* the two calls are the same call with the same arguments
SameCall(c, d) ==
    /\ c.op = d.op
    /\ c.backend = d.backend
    /\ c.category = d.category
    /\ c.reset = d.reset

\* C16: a synchronize, successful or failed, leaves categories, algorithms
\* and params as they were, and the second of two consecutive synchronize
\* calls with the same arguments ends as the first did.
SynchronizeChangesNothing ==
    called.op \in SynchronizeCalls =>
       /\ Self = prev
       /\ SameCall(earlier, called) => called.err = earlier.err

SynchronizedTwice ==
    /\ called.op = "synchronize_backend"
    /\ SameCall(earlier, called)
    /\ called.backend = "dc"
    /\ called.category = "type"
    /\ called.err = NoExc
    /\ earlier.err = NoExc
    /\ Self = prev
    /\ "type" \in DOMAIN params
    /\ params["type"]["backend"] = "cv"

\* C18: a read through a TemporaryConfig object gives what a read of
\* GlobalConfig gives in the same state, and a value stored through an
\* object is at once what GlobalConfig and every object reads: there is no
\* copy of the settings in the object.
ScopedReadsAreDirectReads ==
    /\ (last.op = "read" /\ last.by > 0) =>
          Result(GlobalConfig, last.value, last.err) = Read(last.name)
    /\ (last.op = "write" /\ last.by > 0 /\ last.err = NoExc
          /\ last.value # None) =>
          /\ Read(last.name) = Returns(last.value)
          /\ TemporaryConfigGetattribute(GlobalConfig, last.name)
                = Returns(last.value)

InnerReadsOuterWrite ==
    /\ last.op = "read"
    /\ last.by = 2
    /\ last.err = NoExc
    /\ stored[1][last.name].count >= 1
    /\ stored[2][last.name].count = 0
    /\ last.value = stored[1][last.name].last
    /\ last.value # ConfigInit[Field(last.name)]

\* C19: in every reachable state each boolean setting holds True or False
\* and display_control_backend holds one of the five supported names.
DomainsHold ==
    /\ \A name \in BoolSettings : GlobalConfig[Field(name)] \in {"True", "False"}
    /\ GlobalConfig[Field("display_control_backend")]
          \in SupportedDisplayControlBackends

DomainHeldThroughNestedScopes ==
    /\ focus = {"display_control_backend"}
    /\ Exited
    /\ last.by = 2
    /\ exc = "ValueError"
    /\ stored[1]["display_control_backend"].count >= 1
    /\ stored[2]["display_control_backend"].count >= 1
    /\ stored[2]["display_control_backend"].last = "pyautogui"
    /\ GlobalConfig[Field("display_control_backend")] = "xdotool"

\* the orders in which the items of a dict can be visited
Orders(ov) ==
    {[i \in 1..Len(ov) |-> ov[f[i]]] :
        f \in {g \in [1..Len(ov) -> 1..Len(ov)] :
                 \A i, j \in 1..Len(ov) : g[i] = g[j] => i = j}}

\* the fields of the settings that have an item in the dict
FieldsOf(ov) == {Field(ov[i][1]) : i \in 1..Len(ov)}

\* C20: a write, direct or through an object, changes no attribute but
\* the field of its setting; __exit__ changes no attribute but the fields
\* of the settings recorded in original_values, and leaves the registry
\* in the same state whatever the order in which the items are written
\* back; nothing else changes the registry.
WritesAndExitsAreFramed ==
    [][/\ last'.op = "write" =>
             \A a \in AttrNames \ {Field(last'.name)} :
                GlobalConfig'[a] = GlobalConfig[a]
       /\ last'.op = "exit" =>
             /\ \A a \in AttrNames \ FieldsOf(original_values[depth]) :
                   GlobalConfig'[a] = GlobalConfig[a]
             /\ \A order \in Orders(original_values[depth]) :
                   RestoreFrom(GlobalConfig, order, 1).attrs = GlobalConfig'
       /\ last'.op \notin {"write", "exit"} => GlobalConfig' = GlobalConfig
      ]_vars

DirectWriteSurvivesExit ==
    /\ Exited
    /\ focus = {"toggle_delay", "wait_for_animations"}
    /\ stored[last.by]["toggle_delay"].count >= 1
    /\ stored[last.by]["toggle_delay"].last # entry[last.by]["toggle_delay"]
    /\ stored[last.by]["wait_for_animations"].count = 0
    /\ "wait_for_animations" \in touched[last.by]
    /\ GlobalConfig[Field("wait_for_animations")] = "True"
    /\ GlobalConfig[Field("toggle_delay")] = entry[last.by]["toggle_delay"]

\* the place of thread A's event in the history (0: it has not happened)
At(what) ==
    IF \E i \in 1..Len(events) : events[i].who = "A" /\ events[i].what = what
    THEN CHOOSE i \in 1..Len(events) :
            events[i].who = "A" /\ events[i].what = what
    ELSE 0

\* the direct writes of thread B that stored a value after event i and
\* before event j
DirectWritesBetween(i, j) ==
    {w \in 1..Len(events) :
        /\ i < w /\ w < j
        /\ events[w].who = "B" /\ events[w].applied}

\* what GlobalConfig held for the setting right before thread A's snapshot
HeldAtSnapshot ==
    LET early == DirectWritesBetween(At("enter"), At("snapshot")) IN
    IF early = {} THEN events[At("enter")].value
    ELSE events[CHOOSE w \in early : \A v \in early : v <= w].value

\* the restoration overwrote a value thread B had stored during the scope
LostUpdate ==
    /\ At("restore") > 0
    /\ events[At("restore")].applied
    /\ \E w \in DirectWritesBetween(At("snapshot"), At("restore")) :
          events[w].value # events[At("restore")].value

\* the restoration left another value than the one held before the scope
IncorrectRestoration ==
    /\ At("restore") > 0
    /\ events[At("restore")].applied
    /\ events[At("restore")].value # events[At("enter")].value

\* C17: with the two threads interleaved freely, __exit__ writes back
\* whatever the snapshot read: the value thread B stored between the scope's
\* entry and the snapshot, if there is one (and not the value from before
\* the scope), over every value thread B stored between the snapshot and
\* the restoration (a lost update).  Both bad outcomes are reached.
RacingScopeRestoresItsSnapshot ==
    (At("restore") > 0 /\ events[At("restore")].applied) =>
       /\ At("enter") > 0 /\ At("snapshot") > At("enter")
       /\ events[At("snapshot")].value = HeldAtSnapshot
       /\ events[At("restore")].value = events[At("snapshot")].value
       /\ DirectWritesBetween(At("enter"), At("snapshot")) # {}
             /\ HeldAtSnapshot # events[At("enter")].value
          => IncorrectRestoration
       /\ (\E w \in DirectWritesBetween(At("snapshot"), At("restore")) :
              events[w].value # events[At("snapshot")].value)
          => LostUpdate

LostUpdateAndIncorrectRestoration ==
    /\ pc.A = "done"
    /\ LostUpdate
    /\ IncorrectRestoration
    /\ At("store") > 0
    /\ events[At("store")].applied

\* what the last call would have done with the other value of reset
WithOtherReset ==
    IF called.op = "configure_backend"
    THEN ConfigureBackend(prev, called.backend, called.category, ~called.reset)
    ELSE SynchronizeBackend(prev, called.backend, called.category, ~called.reset)

\* C22: configure(), with any reset and any keyword arguments, succeeds
\* and leaves params["type"] holding "cv" as the backend and nothing else,
\* whatever was selected or stored there before; configure_backend and
\* synchronize_backend end in the same state and with the same outcome
\* for reset true and reset false.
ConfigureSelectsCv ==
    /\ called.op = "configure" =>
          /\ called.err = NoExc
          /\ params = DictSet(prev.params, "type", DictSet(EmptyDict, "backend", "cv"))
          /\ categories = prev.categories
          /\ algorithms = prev.algorithms
    /\ called.op \in CategoryCalls => WithOtherReset = Call(Self, called.err)

ConfigureIgnoredKeywords ==
    /\ called.op = "configure"
    /\ called.backend = "dc"
    /\ ~called.reset
    /\ "type" \in DOMAIN prev.params
    /\ DOMAIN prev.params["type"] = {"backend", "vnc_hostname"}
    /\ prev.params["type"]["backend"] = "dc"
    /\ params["type"] = DictSet(EmptyDict, "backend", "cv")

\* C24: __exit__ never fails.  In every state each item recorded by an
\* open scope holds a value its setting's accessor stores without an error,
\* so the __exit__ of that scope would restore every item and clear the
\* dict; every __exit__ that ran, after stored, rejected and direct writes,
\* raised nothing, left the dict empty and each recorded value in place.
ExitNeverFails ==
    /\ \A k \in 1..depth :
          LET ov == original_values[k] IN
          /\ \A i \in 1..Len(ov) :
                /\ ov[i][2] # None
                /\ SetAttr(GlobalConfig, ov[i][1], ov[i][2]).err = NoExc
          /\ TemporaryConfigExit(GlobalConfig, ov, exc).err = NoExc
          /\ TemporaryConfigExit(GlobalConfig, ov, exc).ov = << >>
    /\ Exited =>
          /\ last.err = NoExc
          /\ original_values[last.by] = << >>
          /\ \A p \in first_seen[last.by] : GlobalConfig[Field(p[1])] = p[2]

ExitAfterRejectedAndDirectWrites ==
    /\ focus = {"display_control_backend"}
    /\ Exited
    /\ last.by = 1
    /\ last.value = "unwinding"
    /\ last.err = NoExc
    /\ exc = "ValueError"
    /\ "display_control_backend" \in touched[1]
    /\ stored[1]["display_control_backend"].last = "xdotool"
    /\ GlobalConfig[Field("display_control_backend")] = "pyautogui"
    /\ original_values[1] = << >>

\* C25: a write of None to a setting's accessor, direct or through a
\* TemporaryConfig object, raises nothing and changes nothing, and no
\* setting that has a value holds None.
NoneWritesAreReads ==
    /\ [](\A name \in Settings : GlobalConfig[Field(name)] # None)
    /\ [][(last'.op = "write" /\ last'.value = None) =>
             (last'.err = NoExc /\ GlobalConfig' = GlobalConfig)]_vars

\* C21: a TemporaryConfig object is empty again after its scope.  While
\* no block of the object is running original_values is empty, so a further
\* __exit__ leaves the registry as it is, and each block that wrote the
\* setting ends with the value its own first write found there, whatever
\* an earlier block of the same object had recorded.
ReusedScopeSnapshotsAfresh ==
    /\ pc.cfg = "closed" => original_values[1] = << >>
    /\ \A i \in 1..Len(events) :
          /\ events[i].again # "changed"
          /\ (events[i].first # "-" /\ events[i].restored # "-") =>
                events[i].restored = events[i].first

SecondScopeRestoredItsOwnSnapshot ==
    /\ Len(events) = 2
    /\ pc.cfg = "closed"
    /\ events[1].again = "same"
    /\ events[2].again = "same"
    /\ events[1].first # "-"
    /\ events[2].first # "-"
    /\ events[1].first # events[2].first
    /\ events[1].restored = events[1].first
    /\ events[2].restored = events[2].first
    /\ \A name \in focus : GlobalConfig[Field(name)] = events[2].first

\* C23: a write that validation rejects, made on GlobalConfig or through a
\* TemporaryConfig object, leaves every attribute of the registry as it
\* was: a step that raises the validation error is a write to a bool
\* setting or to display_control_backend, and the registry after it is the
\* registry before it.
RejectedWriteChangesNothing ==
    [][(exc = NoExc /\ exc' = InvalidValue) =>
          /\ focus \subseteq BoolSettings \cup {"display_control_backend"}
          /\ GlobalConfig' = GlobalConfig]_vars

RejectedWriteKeptOverride ==
    /\ exc = InvalidValue
    /\ pc.cfg = "open"
    /\ focus \subseteq BoolSettings
    /\ \A name \in focus :
          /\ HasKey(original_values[1], name)
          /\ GlobalConfig[Field(name)] # ValueOf(original_values[1], name)
          /\ events[Len(events)].first = ValueOf(original_values[1], name)

====
